---- MODULE Spec2Model ----
(***************************************************************************)
(* A model of pypylon_opencv_viewer.viewer.BaslerOpenCVViewer.             *)
(*                                                                         *)
(* Python dicts keep insertion order, and the code depends on that order   *)
(* (the trigger loop of set_configuration, the refresh loop, the trailing  *)
(* widgets of _order_widgets_to_rows), so a dict is a sequence of entries   *)
(* with unique keys.  A widget is the record of the keyword arguments its  *)
(* constructor was given plus its "disabled" trait; assigning a trait      *)
(* stores the assigned value, and an observer registered for 'value' runs  *)
(* when an assignment changes the value.  The camera is a function from    *)
(* feature name to the node of that feature.  Numeric values are integers. *)
(***************************************************************************)
EXTENDS Integers, Sequences, FiniteSets, TLC

VARIABLES
    configuration,            \* the argument given to set_configuration
    _camera,                  \* device nodes: name -> [value, min, max, inc, hasInc] or [value]
    grabbing,                 \* _camera.IsGrabbing()
    _interact_camera_widgets, \* ordered dict name -> widget
    _interact_action_widgets, \* ordered names of the action widgets
    StatusLabel,              \* _interact_action_widgets["StatusLabel"].value
    _dependecies,             \* ordered dict trigger -> ordered dict feature -> condition
    observed,                 \* triggers whose widget has the dependency observer (line 165)
    _disable_updates,
    _features_layout,
    _actions_layout,
    _default_user_set,
    _impro_function,          \* "None" or "function"
    _impro_own_window,
    panel,                    \* interactive_output observes the feature widgets (line 396)
    row_widgets,              \* the rows handed to VBox by show_interactive_panel
    pc,                       \* position of the single UI thread
    idx,                      \* position of the refresh loop in _interact_camera_widgets
    grab_result,              \* "none", "held" or "released": the grab result of the capture
    window,                   \* the cv2 window 'camera_image' exists
    frame,                    \* what the running capture did with its latest frame, and
                              \* the key held down during that iteration of its loop
    ret,                      \* the last finished operation and what it raised
    writes                    \* setattr(_camera, ...) calls made by the running/last handler

vars == <<configuration, _camera, grabbing, _interact_camera_widgets,
          _interact_action_widgets, StatusLabel, _dependecies, observed,
          _disable_updates, _features_layout, _actions_layout, _default_user_set,
          _impro_function, _impro_own_window, panel, row_widgets, pc, idx,
          grab_result, window, frame, ret, writes>>

(***************************************************************************)
(* Bounds of the modelled device and inputs.                               *)
(***************************************************************************)
GainMin == 1
GainMax == 3

\* The entries of the camera's enumeration features.
Switch == <<"Off", "On">>

\* No capture has touched a frame.
NoFrame == [opened |-> FALSE, grab |-> "none", callback |-> "none", shown |-> FALSE,
            key |-> "none"]

(***************************************************************************)
(* Ordered dicts.                                                          *)
(***************************************************************************)
Keys(d) == {d[k].key : k \in DOMAIN d}

Index(d, key) == CHOOSE k \in DOMAIN d : d[k].key = key

Get(d, key) == d[Index(d, key)].val

\* d[key] = val: a new key is appended, an existing key keeps its place.
Put(d, key, val) ==
    IF key \in Keys(d)
        THEN [d EXCEPT ![Index(d, key)].val = val]
        ELSE Append(d, [key |-> key, val |-> val])

\* dict.get(field, default)
GetOr(r, field, default) == IF field \in DOMAIN r THEN r[field] ELSE default

(***************************************************************************)
(* _process_feature                                                        *)
(***************************************************************************)
WIDGET_TYPES == {"int", "float", "bool", "int_text", "float_text", "choice_text"}

NumericTypes == {"int", "float", "int_text", "float_text"}

\* step = feature.get('step'); None -> GetInc().GetValue(), and 1 if that raises
ResolveStep(feature, pylon_feature) ==
    IF "step" \in DOMAIN feature
        THEN feature.step
        ELSE IF pylon_feature.hasInc THEN pylon_feature.inc ELSE 1

\* ResolveMax without the comparison against GetMax()
ResolveMax_unclamped(feature, pylon_feature) ==
    GetOr(feature, "max", pylon_feature.max)

ResolveMax(feature, pylon_feature) ==
    LET max_value == GetOr(feature, "max", pylon_feature.max)
    IN  IF max_value <= pylon_feature.max THEN max_value ELSE pylon_feature.max

ResolveMin(feature, pylon_feature) ==
    LET min_value == GetOr(feature, "min", pylon_feature.min)
    IN  IF min_value <= pylon_feature.min THEN min_value ELSE pylon_feature.min

\* feature_dep.items() merged into dependencies, in order
RECURSIVE AddDependency(_, _, _, _)
AddDependency(dependencies, feature_name, feature_dep, k) ==
    IF k > Len(feature_dep)
        THEN dependencies
        ELSE LET f == feature_dep[k].key
                 c == feature_dep[k].val
                 d0 == IF f \in Keys(dependencies)
                           THEN dependencies
                           ELSE Put(dependencies, f, <<>>)
                 d1 == Put(d0, f, Put(Get(d0, f), feature_name, c))
             IN  AddDependency(d1, feature_name, feature_dep, k + 1)

\* The widget constructed at line 268, or the error raised before it.
WidgetOf(feature, camera) ==
    LET type_name == feature.type
        known == feature.name \in DOMAIN camera
        pylon_feature == camera[feature.name]
    IN  IF type_name \in NumericTypes
            THEN IF ~known
                     THEN [raised |-> "ValueError"]
                     ELSE [raised |-> "none",
                           widget |-> [type |-> type_name,
                                       value |-> GetOr(feature, "value", pylon_feature.value),
                                       step |-> ResolveStep(feature, pylon_feature),
                                       max |-> ResolveMax(feature, pylon_feature),
                                       min |-> ResolveMin(feature, pylon_feature),
                                       disabled |-> FALSE]]
        ELSE IF type_name = "bool"
            THEN IF ~known
                     THEN [raised |-> "ValueError"]
                     ELSE [raised |-> "none",
                           widget |-> [type |-> type_name,
                                       value |-> GetOr(feature, "value", pylon_feature.value),
                                       disabled |-> FALSE]]
        ELSE \* choice_text
            IF ~known
                THEN [raised |-> "ValueError"]
            ELSE IF "options" \notin DOMAIN feature \/ feature.options = <<>>
                THEN [raised |-> "ValueError"]
            ELSE LET value == GetOr(feature, "value", pylon_feature.value)
                     inOptions == \E k \in DOMAIN feature.options : feature.options[k] = value
                 IN  [raised |-> "none",
                      widget |-> [type |-> type_name,
                                  value |-> IF inOptions THEN value ELSE feature.options[1],
                                  options |-> feature.options,
                                  disabled |-> FALSE]]

\* acc = [raised, widgets, dependencies]: the two dicts _process_feature fills in.
\* 'h_box' is no key of WIDGET_TYPES, so for a descriptor of that type line 192
\* raises and the branch of lines 239-244 is never entered.
_process_feature(feature, acc, camera) ==
    IF "name" \notin DOMAIN feature
        THEN [acc EXCEPT !.raised = "ValueError"]
    ELSE LET dependencies == AddDependency(acc.dependencies, feature.name,
                                           GetOr(feature, "dependency", <<>>), 1)
         IN  IF "type" \notin DOMAIN feature \/ feature.type \notin WIDGET_TYPES
                 THEN [acc EXCEPT !.raised = "ValueError"]
             ELSE LET w == WidgetOf(feature, camera)
                  IN  IF w.raised # "none"
                          THEN [acc EXCEPT !.raised = w.raised]
                          ELSE [raised |-> "none",
                                dependencies |-> dependencies,
                                widgets |-> Put(acc.widgets, feature.name, w.widget)]

\* for feature in configuration["features"]: self._process_feature(...)
RECURSIVE ProcessFeatures(_, _, _, _)
ProcessFeatures(features, k, acc, camera) ==
    IF k > Len(features) \/ acc.raised # "none"
        THEN acc
        ELSE ProcessFeatures(features, k + 1, _process_feature(features[k], acc, camera), camera)

(***************************************************************************)
(* _event_handler_for_dependencies                                         *)
(***************************************************************************)
\* The handler with a cascade: a dependent it disables disables its own
\* dependents in turn
_event_handler_for_dependencies_cascading(trigger, new, dependecies, wdgts) ==
    LET deps == Get(dependecies, trigger)
        w1 == [k \in DOMAIN wdgts |->
                  IF wdgts[k].key \in Keys(deps)
                      THEN [wdgts[k] EXCEPT !.val.disabled = (new # Get(deps, wdgts[k].key))]
                      ELSE wdgts[k]]
        off == {w1[k].key : k \in {j \in DOMAIN w1 :
                                        w1[j].key \in Keys(deps) /\ w1[j].val.disabled}}
    IN  [k \in DOMAIN w1 |->
            IF \E d \in off \cap Keys(dependecies) : w1[k].key \in Keys(Get(dependecies, d))
                THEN [w1[k] EXCEPT !.val.disabled = TRUE]
                ELSE w1[k]]

_event_handler_for_dependencies(trigger, new, dependecies, wdgts) ==
    LET deps == Get(dependecies, trigger)
    IN  [k \in DOMAIN wdgts |->
            IF wdgts[k].key \in Keys(deps)
                THEN [wdgts[k] EXCEPT !.val.disabled = (new # Get(deps, wdgts[k].key))]
                ELSE wdgts[k]]

(***************************************************************************)
(* set_configuration                                                       *)
(***************************************************************************)
\* The keys of _interact_action_widgets after _add_user_actions_to_widgets.
_add_user_actions_to_widgets(default_user_set) ==
    (IF default_user_set = "None" THEN <<"UserSet">> ELSE <<>>)
        \o <<"LoadConfig", "SaveConfig", "ContinuousShot", "SingleShot", "StatusLabel">>

\* The trigger loop without the check of line 163: an unknown trigger is skipped
RECURSIVE RegisterTriggers_unchecked(_, _, _, _)
RegisterTriggers_unchecked(dependecies, k, wdgts, obs) ==
    IF k > Len(dependecies)
        THEN [raised |-> "none", widgets |-> wdgts, observed |-> obs]
        ELSE LET trigger == dependecies[k].key
             IN  IF trigger \notin Keys(wdgts)
                     THEN RegisterTriggers_unchecked(dependecies, k + 1, wdgts, obs)
                     ELSE RegisterTriggers_unchecked(dependecies, k + 1,
                              _event_handler_for_dependencies(trigger, Get(wdgts, trigger).value,
                                                              dependecies, wdgts),
                              obs \cup {trigger})

\* for trigger in self._dependecies.keys(): check, observe, fire the handler once
RECURSIVE RegisterTriggers(_, _, _, _)
RegisterTriggers(dependecies, k, wdgts, obs) ==
    IF k > Len(dependecies)
        THEN [raised |-> "none", widgets |-> wdgts, observed |-> obs]
        ELSE LET trigger == dependecies[k].key
             IN  IF trigger \notin Keys(wdgts)
                     THEN [raised |-> "ValueError", widgets |-> wdgts, observed |-> obs]
                     ELSE RegisterTriggers(dependecies, k + 1,
                              _event_handler_for_dependencies(trigger, Get(wdgts, trigger).value,
                                                              dependecies, wdgts),
                              obs \cup {trigger})

NoWidgets == [raised |-> "none", widgets |-> <<>>, dependencies |-> <<>>]

set_configuration ==
    /\ pc = "init"
    /\ LET acc == IF "features" \in DOMAIN configuration
                      THEN ProcessFeatures(configuration.features, 1, NoWidgets, _camera)
                      ELSE NoWidgets
           reg == RegisterTriggers(acc.dependencies, 1, acc.widgets, {})
       IN  IF acc.raised # "none"
               THEN /\ pc' = "failed"
                    /\ ret' = [op |-> "set_configuration", raised |-> acc.raised]
                    /\ UNCHANGED <<_features_layout, _actions_layout, _default_user_set,
                                   _interact_action_widgets, StatusLabel, _dependecies,
                                   _interact_camera_widgets, observed>>
               ELSE /\ _features_layout' = GetOr(configuration, "features_layout", _features_layout)
                    /\ _actions_layout' = GetOr(configuration, "actions_layout", _actions_layout)
                    /\ _default_user_set' = GetOr(configuration, "default_user_set", _default_user_set)
                    /\ _interact_action_widgets' = _add_user_actions_to_widgets(_default_user_set')
                    /\ StatusLabel' = "Connection was established"
                    /\ _dependecies' = acc.dependencies
                    /\ _interact_camera_widgets' = reg.widgets
                    /\ observed' = reg.observed
                    /\ pc' = IF reg.raised = "none" THEN "configured" ELSE "failed"
                    /\ ret' = [op |-> "set_configuration", raised |-> reg.raised]
    /\ UNCHANGED <<configuration, _camera, grabbing, _disable_updates, _impro_function,
                   _impro_own_window, panel, row_widgets, idx, grab_result, window,
                   frame, writes>>

(***************************************************************************)
(* _order_widgets_to_rows and show_interactive_panel                       *)
(***************************************************************************)
\* The characters of the strings that occur as a row written ("Name"), which
\* Python reads as the str "Name", not as a 1-tuple.
Chars(s) ==
    CASE s = "StatusLabel" -> <<"S", "t", "a", "t", "u", "s", "L", "a", "b", "e", "l">>
      [] s = "UserSet" -> <<"U", "s", "e", "r", "S", "e", "t">>
      [] s = "GainRaw" -> <<"G", "a", "i", "n", "R", "a", "w">>
      [] s = "TriggerMode" -> <<"T", "r", "i", "g", "g", "e", "r", "M", "o", "d", "e">>

\* for item in items_in_row: a tuple yields its names, a str its characters
Items(items_in_row) ==
    IF "str" \in DOMAIN items_in_row THEN Chars(items_in_row.str) ELSE items_in_row.tuple

Range(s) == {s[k] : k \in DOMAIN s}

\* wdgts is the sequence of the keys of the widget dict, in its order
RECURSIVE KeptRows(_, _, _)
KeptRows(rows, k, wdgts) ==
    IF k > Len(rows)
        THEN <<>>
        ELSE (IF Range(Items(rows[k])) \subseteq Range(wdgts)
                  THEN <<[hbox |-> TRUE, items |-> Items(rows[k])]>>
                  ELSE <<>>)
             \o KeptRows(rows, k + 1, wdgts)

RECURSIVE Trailing(_, _, _)
Trailing(wdgts, k, items_rearranged) ==
    IF k > Len(wdgts)
        THEN <<>>
        ELSE (IF wdgts[k] \notin items_rearranged
                  THEN <<[hbox |-> FALSE, items |-> <<wdgts[k]>>]>>
                  ELSE <<>>)
             \o Trailing(wdgts, k + 1, items_rearranged)

_order_widgets_to_rows(rows, wdgts) ==
    LET kept == KeptRows(rows, 1, wdgts)
        items_rearranged == UNION {Range(kept[k].items) : k \in DOMAIN kept}
    IN  kept \o Trailing(wdgts, 1, items_rearranged)

KeySeq(d) == [k \in DOMAIN d |-> d[k].key]

\* _update_values_from_widgets without the test of _disable_updates
_update_values_from_widgets_unguarded(disable_updates, wdgts, camera) ==
    LET written == {k \in DOMAIN wdgts : ~wdgts[k].val.disabled}
    IN  [camera |-> [n \in DOMAIN camera |->
                        IF \E k \in written : wdgts[k].key = n
                            THEN [camera[n] EXCEPT !.value = Get(wdgts, n).value]
                            ELSE camera[n]],
         writes |-> Cardinality(written)]

\* _update_values_from_widgets(**kwargs), kwargs being the values of all feature
\* widgets: the camera afterwards and the number of setattr calls.
_update_values_from_widgets(disable_updates, wdgts, camera) ==
    LET written == IF disable_updates
                       THEN {}
                       ELSE {k \in DOMAIN wdgts : ~wdgts[k].val.disabled}
    IN  [camera |-> [n \in DOMAIN camera |->
                        IF \E k \in written : wdgts[k].key = n
                            THEN [camera[n] EXCEPT !.value = Get(wdgts, n).value]
                            ELSE camera[n]],
         writes |-> Cardinality(written)]

\* interactive_output (line 396) registers its observer on every feature widget
\* and calls _update_values_from_widgets once with the widgets' current values.
show_interactive_panel ==
    /\ pc = "configured"
    /\ row_widgets' = [actions |-> _order_widgets_to_rows(_actions_layout, _interact_action_widgets),
                       features |-> _order_widgets_to_rows(_features_layout,
                                                           KeySeq(_interact_camera_widgets))]
    /\ panel' = TRUE
    /\ LET upd == _update_values_from_widgets(_disable_updates, _interact_camera_widgets,
                                              _camera)
       IN  /\ _camera' = upd.camera
           /\ writes' = upd.writes
    /\ pc' = "idle"
    /\ ret' = [op |-> "show_interactive_panel", raised |-> "none"]
    /\ UNCHANGED <<configuration, grabbing, _interact_camera_widgets,
                   _interact_action_widgets, StatusLabel, _dependecies, observed,
                   _disable_updates, _features_layout, _actions_layout, _default_user_set,
                   _impro_function, _impro_own_window, idx, grab_result, window, frame>>

(***************************************************************************)
(* Value changes of the feature widgets and their observers.               *)
(***************************************************************************)
\* Assign with the observers run in the opposite order: the write to the
\* camera first, the dependency handler after it
Assign_write_first(name, new, wdgts, camera, disable_updates) ==
    IF Get(wdgts, name).value = new
        THEN [widgets |-> wdgts, camera |-> camera, writes |-> 0]
        ELSE LET w1 == [wdgts EXCEPT ![Index(wdgts, name)].val.value = new]
                 upd == IF panel
                            THEN _update_values_from_widgets(disable_updates, w1, camera)
                            ELSE [camera |-> camera, writes |-> 0]
                 w2 == IF name \in observed
                           THEN _event_handler_for_dependencies(name, new, _dependecies, w1)
                           ELSE w1
             IN  [widgets |-> w2, camera |-> upd.camera, writes |-> upd.writes]

\* widget.value = new for the widget called name.  When the value changes the
\* observers run in the order of their registration: the dependency handler
\* (set_configuration, line 165), then interactive_output's (line 396).
Assign(name, new, wdgts, camera, disable_updates) ==
    IF Get(wdgts, name).value = new
        THEN [widgets |-> wdgts, camera |-> camera, writes |-> 0]
        ELSE LET w1 == [wdgts EXCEPT ![Index(wdgts, name)].val.value = new]
                 w2 == IF name \in observed
                           THEN _event_handler_for_dependencies(name, new, _dependecies, w1)
                           ELSE w1
                 upd == IF panel
                            THEN _update_values_from_widgets(disable_updates, w2, camera)
                            ELSE [camera |-> camera, writes |-> 0]
             IN  [widgets |-> w2, camera |-> upd.camera, writes |-> upd.writes]

\* The values the front end lets the user give a widget.
UserValues(w) ==
    IF w.type \in NumericTypes
        THEN {v \in w.min .. w.max : (v - w.min) % w.step = 0}
        ELSE IF w.type = "bool" THEN BOOLEAN ELSE Range(w.options)

\* The user moves an enabled feature widget to another value.
WidgetChange ==
    /\ pc = "idle"
    /\ \E k \in DOMAIN _interact_camera_widgets :
           LET w == _interact_camera_widgets[k].val
           IN  /\ ~w.disabled
               /\ \E v \in UserValues(w) \ {w.value} :
                      LET r == Assign(_interact_camera_widgets[k].key, v,
                                      _interact_camera_widgets, _camera, _disable_updates)
                      IN  /\ _interact_camera_widgets' = r.widgets
                          /\ _camera' = r.camera
                          /\ writes' = r.writes
    /\ ret' = [op |-> "change", raised |-> "none"]
    /\ grab_result' = "none"
    /\ frame' = NoFrame
    /\ UNCHANGED <<configuration, grabbing, _interact_action_widgets, StatusLabel,
                   _dependecies, observed, _disable_updates, _features_layout,
                   _actions_layout, _default_user_set, _impro_function,
                   _impro_own_window, panel, row_widgets, pc, idx, window>>

(***************************************************************************)
(* _button_clicked: Load configuration, Save configuration                 *)
(***************************************************************************)
\* What UserSetLoad() can leave in the nodes: any value of each node's range.
NodeValues(node) == {v \in node.min .. node.max : (v - node.min) % node.inc = 0}

UserSetLoad(camera) ==
    { [camera EXCEPT !.TriggerMode.value = t, !.ExposureAuto.value = e, !.GainRaw.value = g] :
        t \in Range(Switch), e \in Range(Switch), g \in NodeValues(camera.GainRaw) }

\* "Load configuration" up to the loop of _update_values_from_camera.
LoadConfiguration ==
    /\ pc = "idle"
    /\ StatusLabel' = "Loading configuration"
    /\ _camera' \in UserSetLoad(_camera)
    /\ _disable_updates' = TRUE
    /\ idx' = 1
    /\ pc' = "refresh"
    /\ writes' = 0
    /\ grab_result' = "none"
    /\ frame' = NoFrame
    /\ UNCHANGED <<configuration, grabbing, _interact_camera_widgets,
                   _interact_action_widgets, _dependecies, observed, _features_layout,
                   _actions_layout, _default_user_set, _impro_function,
                   _impro_own_window, panel, row_widgets, window, ret>>

\* What getattr(self._camera, widget_name).GetValue() does: it returns the
\* node's value or raises (the node cannot be read, the device is gone).
ReadOutcomes == {"value", "raises"}

\* One iteration of the loop of _update_values_from_camera.  A read that
\* raises leaves the method and _button_clicked at once: line 409 and line 280
\* do not run.
_update_values_from_camera ==
    /\ pc = "refresh"
    /\ idx <= Len(_interact_camera_widgets)
    /\ \E read \in ReadOutcomes :
           IF read = "raises"
               THEN /\ pc' = "idle"
                    /\ ret' = [op |-> "load", raised |-> "GenericException"]
                    /\ UNCHANGED <<_interact_camera_widgets, _camera, writes, idx>>
               ELSE /\ LET widget_name == _interact_camera_widgets[idx].key
                           r == Assign(widget_name, _camera[widget_name].value,
                                       _interact_camera_widgets, _camera, _disable_updates)
                       IN  /\ _interact_camera_widgets' = r.widgets
                           /\ _camera' = r.camera
                           /\ writes' = writes + r.writes
                    /\ idx' = idx + 1
                    /\ UNCHANGED <<pc, ret>>
    /\ UNCHANGED <<configuration, grabbing, _interact_action_widgets, StatusLabel,
                   _dependecies, observed, _disable_updates, _features_layout,
                   _actions_layout, _default_user_set, _impro_function,
                   _impro_own_window, panel, row_widgets, grab_result, window,
                   frame>>

\* The loop is over: the flag is cleared and _button_clicked sets the status.
LoadConfigurationDone ==
    /\ pc = "refresh"
    /\ idx > Len(_interact_camera_widgets)
    /\ _disable_updates' = FALSE
    /\ StatusLabel' = "Configuration was loaded"
    /\ pc' = "idle"
    /\ ret' = [op |-> "load", raised |-> "none"]
    /\ UNCHANGED <<configuration, _camera, grabbing, _interact_camera_widgets,
                   _interact_action_widgets, _dependecies, observed, _features_layout,
                   _actions_layout, _default_user_set, _impro_function,
                   _impro_own_window, panel, row_widgets, idx, grab_result, window,
                   frame, writes>>

SaveConfiguration ==
    /\ pc = "idle"
    /\ StatusLabel' = "Configuration was saved"
    /\ ret' = [op |-> "save", raised |-> "none"]
    /\ writes' = 0
    /\ grab_result' = "none"
    /\ frame' = NoFrame
    /\ UNCHANGED <<configuration, _camera, grabbing, _interact_camera_widgets,
                   _interact_action_widgets, _dependecies, observed, _disable_updates,
                   _features_layout, _actions_layout, _default_user_set,
                   _impro_function, _impro_own_window, panel, row_widgets, pc, idx,
                   window>>

(***************************************************************************)
(* set_impro_function, _run_continuous_shot, _run_single_shot              *)
(***************************************************************************)
set_impro_function ==
    /\ pc = "idle"
    /\ \E impro_function \in {"None", "function"}, own_window \in BOOLEAN :
           /\ <<impro_function, own_window>> # <<_impro_function, _impro_own_window>>
           /\ _impro_function' = impro_function
           /\ _impro_own_window' = own_window
    /\ ret' = [op |-> "set_impro_function", raised |-> "none"]
    /\ writes' = 0
    /\ grab_result' = "none"
    /\ frame' = NoFrame
    /\ UNCHANGED <<configuration, _camera, grabbing, _interact_camera_widgets,
                   _interact_action_widgets, StatusLabel, _dependecies, observed,
                   _disable_updates, _features_layout, _actions_layout,
                   _default_user_set, panel, row_widgets, pc, idx, window>>

\* What the image processing function does with a frame it is given.
CallbackOutcomes == {"array", "not an array", "raises"}

\* The key the user holds down while an iteration runs: what cv2.waitKey
\* reports if the iteration calls it.
WaitKeys == {"none", "s", "q"}

\* ShowImage without the isinstance test: whatever the function returns is shown
ShowImage_unchecked(outcome) ==
    IF _impro_own_window
        THEN IF _impro_function = "None"
                 THEN [raised |-> "TypeError", callback |-> "none",
                       shown |-> FALSE, destroyed |-> FALSE]
             ELSE IF outcome = "raises"
                 THEN [raised |-> "CallbackError", callback |-> outcome,
                       shown |-> FALSE, destroyed |-> FALSE]
             ELSE [raised |-> "none", callback |-> outcome,
                   shown |-> FALSE, destroyed |-> FALSE]
    ELSE IF _impro_function # "None"
        THEN IF outcome = "raises"
                 THEN [raised |-> "CallbackError", callback |-> outcome,
                       shown |-> FALSE, destroyed |-> FALSE]
             ELSE [raised |-> "none", callback |-> outcome,
                   shown |-> TRUE, destroyed |-> FALSE]
    ELSE [raised |-> "none", callback |-> "none", shown |-> TRUE, destroyed |-> FALSE]

\* Lines 435-444 and 481-490: the grabbed image goes to the impro function or
\* to cv2.imshow.  destroyed: cv2.destroyAllWindows() ran before the raise.
ShowImage(outcome) ==
    IF _impro_own_window
        THEN IF _impro_function = "None"
                 THEN [raised |-> "TypeError", callback |-> "none",
                       shown |-> FALSE, destroyed |-> FALSE]
             ELSE IF outcome = "raises"
                 THEN [raised |-> "CallbackError", callback |-> outcome,
                       shown |-> FALSE, destroyed |-> FALSE]
             ELSE [raised |-> "none", callback |-> outcome,
                   shown |-> FALSE, destroyed |-> FALSE]
    ELSE IF _impro_function # "None"
        THEN IF outcome = "raises"
                 THEN [raised |-> "CallbackError", callback |-> outcome,
                       shown |-> FALSE, destroyed |-> FALSE]
             ELSE IF outcome = "not an array"
                 THEN [raised |-> "ValueError", callback |-> outcome,
                       shown |-> FALSE, destroyed |-> TRUE]
             ELSE [raised |-> "none", callback |-> outcome,
                   shown |-> TRUE, destroyed |-> FALSE]
    ELSE [raised |-> "none", callback |-> "none", shown |-> TRUE, destroyed |-> FALSE]

\* "Continuous shot" up to the while loop: lines 413-425.
ContinuousShot ==
    /\ pc = "idle"
    /\ window' = (window \/ ~_impro_own_window)
    /\ grabbing' = TRUE
    /\ pc' = "continuous"
    /\ grab_result' = "none"
    /\ frame' = [NoFrame EXCEPT !.opened = ~_impro_own_window]
    /\ writes' = 0
    /\ UNCHANGED <<configuration, _camera, _interact_camera_widgets,
                   _interact_action_widgets, StatusLabel, _dependecies, observed,
                   _disable_updates, _features_layout, _actions_layout,
                   _default_user_set, _impro_function, _impro_own_window, panel,
                   row_widgets, idx, ret>>

\* The loop body with RetrieveResult returning an unsuccessful result on a
\* timeout instead of raising
ContinuousBody_timeout_returned(retrieve, outcome, k) ==
    IF retrieve \in {"timeout", "failed"}
        THEN [exit |-> "none", grab_result |-> "released",
              frame |-> [frame EXCEPT !.grab = retrieve, !.callback = "none", !.shown = FALSE,
                                  !.key = k],
              status |-> StatusLabel]
        ELSE [exit |-> IF k = "q" THEN "break" ELSE "none",
              grab_result |-> IF k = "q" THEN "held" ELSE "released",
              frame |-> [frame EXCEPT !.grab = retrieve, !.callback = "none", !.shown = TRUE,
                                  !.key = k],
              status |-> StatusLabel]

\* One iteration of the while loop (lines 427-453) for what RetrieveResult,
\* the impro function and waitKey do: either the loop goes on, or it is left
\* by break or by an exception, through the finally clause.
ContinuousBody(retrieve, outcome, k) ==
    IF retrieve = "timeout"
        THEN [exit |-> "TimeoutException", grab_result |-> grab_result,
              frame |-> [frame EXCEPT !.grab = retrieve, !.callback = "none", !.shown = FALSE,
                                  !.key = k],
              status |-> StatusLabel]
    ELSE IF retrieve = "failed"
        THEN [exit |-> "none", grab_result |-> "released",
              frame |-> [frame EXCEPT !.grab = retrieve, !.callback = "none", !.shown = FALSE,
                                  !.key = k],
              status |-> StatusLabel]
    ELSE LET img == ShowImage(outcome)
             fr == [frame EXCEPT !.grab = retrieve, !.callback = img.callback,
                                 !.shown = img.shown, !.key = k]
         IN  IF img.raised # "none"
                 THEN [exit |-> img.raised, grab_result |-> "held", frame |-> fr,
                       status |-> StatusLabel]
             ELSE IF k = "s" /\ ~_impro_own_window
                 THEN [exit |-> "none", grab_result |-> "released", frame |-> fr,
                       status |-> "Grabbed image was saved"]
             ELSE IF k = "q"
                 THEN [exit |-> "break", grab_result |-> "held", frame |-> fr,
                       status |-> StatusLabel]
             ELSE [exit |-> "none", grab_result |-> "released", frame |-> fr,
                   status |-> StatusLabel]

_run_continuous_shot ==
    /\ pc = "continuous"
    /\ grabbing
    /\ \E retrieve \in {"timeout", "failed", "succeeded"},
          outcome \in CallbackOutcomes, k \in WaitKeys :
           LET b == ContinuousBody(retrieve, outcome, k)
           IN  /\ grab_result' = b.grab_result
               /\ frame' = b.frame
               /\ StatusLabel' = b.status
               /\ IF b.exit = "none"
                      THEN UNCHANGED <<pc, grabbing, window, ret>>
                      ELSE /\ window' = FALSE
                           /\ grabbing' = FALSE
                           /\ pc' = "idle"
                           /\ ret' = [op |-> "continuous",
                                      raised |-> IF b.exit = "break" THEN "none" ELSE b.exit]
    /\ UNCHANGED <<configuration, _camera, _interact_camera_widgets,
                   _interact_action_widgets, _dependecies, observed, _disable_updates,
                   _features_layout, _actions_layout, _default_user_set,
                   _impro_function, _impro_own_window, panel, row_widgets, idx, writes>>

\* "Single shot" up to the wait for a key (lines 459-490), for what GrabOne and
\* the impro function do.  GrabOne leaves the camera not grabbing.
SingleBody(grab, outcome) ==
    IF grab = "failed"
        THEN [exit |-> "return", window |-> FALSE,
              frame |-> [opened |-> ~_impro_own_window, grab |-> grab, callback |-> "none",
                         shown |-> FALSE, key |-> "none"],
              status |-> "The single shot action has failed."]
        ELSE LET img == ShowImage(outcome)
             IN  [exit |-> img.raised,
                  window |-> (window \/ ~_impro_own_window) /\ ~img.destroyed,
                  frame |-> [opened |-> ~_impro_own_window, grab |-> grab,
                             callback |-> img.callback, shown |-> img.shown,
                             key |-> "none"],
                  status |-> "The single shot was successfully grabbed."]

SingleShot ==
    /\ pc = "idle"
    /\ \E grab \in {"failed", "succeeded"}, outcome \in CallbackOutcomes :
           LET b == SingleBody(grab, outcome)
           IN  /\ window' = b.window
               /\ frame' = b.frame
               /\ StatusLabel' = b.status
               /\ pc' = IF b.exit = "none" THEN "single" ELSE "idle"
               /\ ret' = IF b.exit = "none"
                             THEN ret
                             ELSE [op |-> "single",
                                   raised |-> IF b.exit = "return" THEN "none" ELSE b.exit]
    /\ grabbing' = FALSE
    /\ grab_result' = "held"
    /\ writes' = 0
    /\ UNCHANGED <<configuration, _camera, _interact_camera_widgets,
                   _interact_action_widgets, _dependecies, observed, _disable_updates,
                   _features_layout, _actions_layout, _default_user_set,
                   _impro_function, _impro_own_window, panel, row_widgets, idx>>

\* One iteration of the wait for a key (lines 491-500).
_run_single_shot ==
    /\ pc = "single"
    /\ \E k \in WaitKeys :
           IF k = "s" /\ ~_impro_own_window
               THEN /\ StatusLabel' = "The grabbed image was saved"
                    /\ UNCHANGED <<pc, window, ret>>
           ELSE IF k = "q"
               THEN /\ window' = FALSE
                    /\ pc' = "idle"
                    /\ ret' = [op |-> "single", raised |-> "none"]
                    /\ UNCHANGED StatusLabel
           ELSE UNCHANGED <<pc, window, ret, StatusLabel>>
    /\ UNCHANGED <<configuration, _camera, grabbing, _interact_camera_widgets,
                   _interact_action_widgets, _dependecies, observed, _disable_updates,
                   _features_layout, _actions_layout, _default_user_set,
                   _impro_function, _impro_own_window, panel, row_widgets, idx,
                   grab_result, frame, writes>>

(***************************************************************************)
(* The state after __init__, for a camera and a configuration to be given. *)
(***************************************************************************)
\* line 48: ("StatusLabel") and ("UserSet") are strs, the middle row is a tuple
DefaultActionsLayout ==
    << [str |-> "StatusLabel"],
       [tuple |-> <<"SaveConfig", "LoadConfig", "ContinuousShot", "SingleShot">>],
       [str |-> "UserSet"] >>

__init__(cameras, configurations) ==
    /\ configuration \in configurations
    /\ _camera \in cameras
    /\ grabbing = FALSE
    /\ _interact_camera_widgets = <<>>
    /\ _interact_action_widgets = <<>>
    /\ StatusLabel = "None"
    /\ _dependecies = <<>>
    /\ observed = {}
    /\ _disable_updates = FALSE
    /\ _features_layout = <<>>
    /\ _actions_layout = DefaultActionsLayout
    /\ _default_user_set = "None"
    /\ _impro_function = "None"
    /\ _impro_own_window = FALSE
    /\ panel = FALSE
    /\ row_widgets = [actions |-> <<>>, features |-> <<>>]
    /\ pc = "init"
    /\ idx = 0
    /\ grab_result = "none"
    /\ window = FALSE
    /\ frame = NoFrame
    /\ ret = [op |-> "__init__", raised |-> "none"]
    /\ writes = 0

(***************************************************************************)
(* Inputs.                                                                 *)
(***************************************************************************)
\* A missing key of a dict, or the key with one of the values of S.
Optional(field, S) == {<<>>} \cup {field :> v : v \in S}

\* The nodes of the camera: two enumerations and one integer feature.
Cameras(gains, incs, hasIncs) ==
    { [TriggerMode |-> [value |-> t],
       ExposureAuto |-> [value |-> e],
       GainRaw |-> [value |-> g, min |-> GainMin, max |-> GainMax, inc |-> i, hasInc |-> h]] :
        t \in Range(Switch), e \in Range(Switch), g \in gains, i \in incs, h \in hasIncs }

\* Numeric descriptors of GainRaw with bounds below, at and above the device's.
NumericDescriptors ==
    { [name |-> "GainRaw", type |-> t] @@ mn @@ mx @@ st @@ va :
        t \in {"int", "float_text"},
        mn \in Optional("min", (GainMin - 1) .. (GainMin + 1)),
        mx \in Optional("max", (GainMax - 1) .. (GainMax + 1)),
        st \in Optional("step", {1}),
        va \in Optional("value", {GainMin}) }

\* Descriptors of type 'h_box', with and without a name of their own, whose
\* content is one or two descriptors that are valid by themselves.
GroupDescriptors ==
    { [type |-> "h_box", content |-> c] @@ nm :
        nm \in Optional("name", {"Group"}),
        c \in {<<[name |-> "GainRaw", type |-> "int"]>>,
               <<[name |-> "TriggerMode", type |-> "choice_text", options |-> Switch],
                 [name |-> "GainRaw", type |-> "int"]>>} }

InitFeature ==
    __init__({c \in Cameras(GainMin .. GainMax, {1, 2}, BOOLEAN) :
                  c.TriggerMode.value = "Off" /\ c.ExposureAuto.value = "Off"},
             {[features |-> <<d>>] : d \in NumericDescriptors \cup GroupDescriptors})

NextFeature == set_configuration

SpecFeature == InitFeature /\ [][NextFeature]_vars

\* Descriptors without optional fields, one per camera feature.
Plain(name) ==
    IF name = "GainRaw"
        THEN [name |-> name, type |-> "int"]
        ELSE [name |-> name, type |-> "choice_text", options |-> Switch]

MaxRows == 2

\* Rows of one or two names, one of them ("Width") not a configured control,
\* and rows written as a parenthesised str.
LayoutNames == {"TriggerMode", "ExposureAuto", "GainRaw", "Width"}

LayoutRows ==
    {[tuple |-> t] : t \in UNION {[1 .. n -> LayoutNames] : n \in 1 .. 2}}
        \cup {[str |-> n] : n \in {"GainRaw", "TriggerMode"}}

Layouts == UNION {[1 .. n -> LayoutRows] : n \in 0 .. MaxRows}

\* The default actions layout with every row written as a tuple.
TupledActionsLayout ==
    << [tuple |-> <<"StatusLabel">>],
       [tuple |-> <<"SaveConfig", "LoadConfig", "ContinuousShot", "SingleShot">>],
       [tuple |-> <<"UserSet">>] >>

LayoutConfigurations ==
    { [features |-> <<Plain("TriggerMode"), Plain("ExposureAuto"), Plain("GainRaw")>>,
       features_layout |-> l] @@ a @@ u :
        l \in Layouts,
        a \in Optional("actions_layout", {TupledActionsLayout}),
        u \in Optional("default_user_set", {"UserSet3"}) }

InitLayout ==
    __init__({c \in Cameras({GainMin}, {1}, {TRUE}) :
                  c.TriggerMode.value = "Off" /\ c.ExposureAuto.value = "Off"},
             LayoutConfigurations)

NextLayout == set_configuration \/ show_interactive_panel

SpecLayout == InitLayout /\ [][NextLayout]_vars

\* Ordered dicts of at most two of the given triggers, each required "On".
DependencyDicts(triggers) ==
    {<<>>}
        \cup {<<[key |-> t, val |-> "On"]>> : t \in triggers}
        \cup {<<[key |-> p[1], val |-> "On"], [key |-> p[2], val |-> "On"]>> :
                  p \in {q \in triggers \X triggers : q[1] # q[2]}}

WithDependency(feature, triggers) ==
    {feature} \cup {feature @@ ("dependency" :> d) : d \in DependencyDicts(triggers) \ {<<>>}}

\* GainRaw with a value of its own, other than the device's, enabled while
\* TriggerMode is "On".
GainWithValue ==
    [name |-> "GainRaw", type |-> "int", value |-> GainMax,
     dependency |-> <<[key |-> "TriggerMode", val |-> "On"]>>]

\* The three features in either order, or without ExposureAuto (a dependency
\* on it then names no control); ExposureAuto may depend on TriggerMode and
\* GainRaw on both.
Configurations ==
    { [features |-> fs] :
        fs \in UNION {
            { <<t, e, g>>, <<g, e, t>>, <<g, t>> } :
                t \in {Plain("TriggerMode")},
                e \in WithDependency(Plain("ExposureAuto"), {"TriggerMode"}),
                g \in WithDependency(Plain("GainRaw"), {"TriggerMode", "ExposureAuto"})
                          \cup {GainWithValue} } }

Init == __init__(Cameras({GainMin}, {GainMax - GainMin}, {TRUE}), Configurations)

\* The panel: configuration, display, value changes, load and save.
Next ==
    \/ set_configuration
    \/ show_interactive_panel
    \/ WidgetChange
    \/ LoadConfiguration
    \/ _update_values_from_camera
    \/ LoadConfigurationDone
    \/ SaveConfiguration

Spec == Init /\ [][Next]_vars

\* The panel and the captures with every impro function setting, on two
\* configurations.
InitCapture ==
    __init__({c \in Cameras({GainMin}, {GainMax - GainMin}, {TRUE}) :
                  c.TriggerMode.value = "Off" /\ c.ExposureAuto.value = "Off"},
             {[features |-> <<Plain("GainRaw")>>],
              [features |-> <<Plain("TriggerMode"), GainWithValue>>]})

NextCapture ==
    \/ Next
    \/ set_impro_function
    \/ ContinuousShot
    \/ _run_continuous_shot
    \/ SingleShot
    \/ _run_single_shot

SpecCapture == InitCapture /\ [][NextCapture]_vars

(***************************************************************************)
(* Claims about the resolved bounds of a numeric feature.                  *)
(***************************************************************************)
Features == GetOr(configuration, "features", <<>>)

Configured == pc \notin {"init", "failed"}

\* The numeric descriptors of the configuration that got a widget.
NumericFeatures ==
    {k \in DOMAIN Features :
        /\ Features[k].type \in NumericTypes
        /\ Features[k].name \in Keys(_interact_camera_widgets)}

Widget(name) == Get(_interact_camera_widgets, name)

\* C3: the resolved max of a numeric control never exceeds the device-reported
\* max: an explicit max above the device max resolves to the device max, an
\* explicit max at or below it is kept as given.
C3_MaxClampedToDevice ==
    Configured =>
        \A k \in NumericFeatures :
            LET feature == Features[k]
                pylon_feature == _camera[feature.name]
                w == Widget(feature.name)
            IN  /\ w.max <= pylon_feature.max
                /\ "max" \in DOMAIN feature /\ feature.max > pylon_feature.max
                       => w.max = pylon_feature.max
                /\ "max" \in DOMAIN feature /\ feature.max <= pylon_feature.max
                       => w.max = feature.max

C3_Witness ==
    /\ Configured
    /\ \E k \in NumericFeatures :
           /\ "max" \in DOMAIN Features[k]
           /\ Features[k].max > _camera[Features[k].name].max
           /\ Widget(Features[k].name).max = _camera[Features[k].name].max

\* C4: the resolved min of a numeric control never undercuts the device-reported
\* min: an explicit min below the device min resolves to the device min, an
\* explicit min at or above it is kept as given.
C4_MinClampedToDevice ==
    Configured =>
        \A k \in NumericFeatures :
            LET feature == Features[k]
                pylon_feature == _camera[feature.name]
                w == Widget(feature.name)
            IN  /\ w.min >= pylon_feature.min
                /\ "min" \in DOMAIN feature /\ feature.min < pylon_feature.min
                       => w.min = pylon_feature.min
                /\ "min" \in DOMAIN feature /\ feature.min >= pylon_feature.min
                       => w.min = feature.min

\* C5: a numeric descriptor giving only min and max, both inside the device
\* range, resolves to a control with those min and max, the device-reported
\* increment as step and the device's current value as value.
C5_MissingFieldsFromDevice ==
    Configured =>
        \A k \in NumericFeatures :
            LET feature == Features[k]
                pylon_feature == _camera[feature.name]
                w == Widget(feature.name)
            IN  /\ {"min", "max"} \subseteq DOMAIN feature
                /\ DOMAIN feature \cap {"step", "value"} = {}
                /\ pylon_feature.min <= feature.min
                /\ feature.min <= feature.max
                /\ feature.max <= pylon_feature.max
                /\ pylon_feature.hasInc
                => /\ w.min = feature.min
                   /\ w.max = feature.max
                   /\ w.step = pylon_feature.inc
                   /\ w.value = pylon_feature.value

(***************************************************************************)
(* Claim about group descriptors.                                          *)
(***************************************************************************)
GroupFeatures == {k \in DOMAIN Features : Features[k].type = "h_box"}

\* The names of the controls of the configuration with every group replaced
\* by its content.
FlattenedNames ==
    UNION { IF Features[k].type = "h_box"
                THEN {Features[k].content[j].name : j \in DOMAIN Features[k].content}
                ELSE {Features[k].name} : k \in DOMAIN Features }

\* C11: a configuration with a group descriptor (type 'h_box') is accepted,
\* and its control set is exactly the controls of the group's content and of
\* the other descriptors: the group itself contributes no control.
C11_GroupFlattened ==
    pc # "init" /\ GroupFeatures # {} =>
        /\ pc = "configured"
        /\ Keys(_interact_camera_widgets) = FlattenedNames

(***************************************************************************)
(* Claim about the row ordering.                                           *)
(***************************************************************************)
\* The control names a layout row stands for.
RowNames(row) == IF "str" \in DOMAIN row THEN <<row.str>> ELSE row.tuple

RECURSIVE RowsInControlSet(_, _, _)
RowsInControlSet(rows, k, wdgts) ==
    IF k > Len(rows)
        THEN <<>>
        ELSE (IF Range(RowNames(rows[k])) \subseteq Range(wdgts)
                  THEN <<[hbox |-> TRUE, items |-> RowNames(rows[k])]>>
                  ELSE <<>>)
             \o RowsInControlSet(rows, k + 1, wdgts)

ExpectedOrdering(rows, wdgts) ==
    LET kept == RowsInControlSet(rows, 1, wdgts)
        placed == UNION {Range(kept[k].items) : k \in DOMAIN kept}
    IN  kept \o Trailing(wdgts, 1, placed)

\* C6: the ordering produced for a layout list and a control set is, in layout
\* order, exactly the rows all of whose names are controls, followed by one
\* single-item entry for every control that no kept row placed.
C6_RowOrdering ==
    pc = "idle" =>
        /\ row_widgets.actions = ExpectedOrdering(_actions_layout, _interact_action_widgets)
        /\ row_widgets.features = ExpectedOrdering(_features_layout,
                                                   KeySeq(_interact_camera_widgets))

(***************************************************************************)
(* Claims about the panel: load, dependencies, dependency table.           *)
(***************************************************************************)
\* C1: after a "Load configuration" that ran to its end every feature
\* control shows the device's post-load value, and no setattr on the camera
\* happens while the refresh runs or by its end.
C1_RefreshWithoutWrite ==
    /\ pc = "refresh" => writes = 0
    /\ pc = "idle" /\ ret.op = "load" => writes = 0
    /\ pc = "idle" /\ ret = [op |-> "load", raised |-> "none"] =>
           /\ \A k \in DOMAIN _interact_camera_widgets :
                  _interact_camera_widgets[k].val.value
                      = _camera[_interact_camera_widgets[k].key].value

\* A finished load on a shown panel whose controls include a disabled one.
C1_Witness ==
    /\ pc = "idle"
    /\ ret = [op |-> "load", raised |-> "none"]
    /\ panel
    /\ StatusLabel = "Configuration was loaded"
    /\ \E k \in DOMAIN _interact_camera_widgets : _interact_camera_widgets[k].val.disabled
    /\ \E k \in DOMAIN _interact_camera_widgets : ~_interact_camera_widgets[k].val.disabled

\* C2: right after set_configuration returns, for every entry (controlling
\* control, dependent, required value) of the dependency table the dependent
\* is enabled exactly when the controlling control's value is the required one.
C2_InitialEnabledState ==
    pc = "configured" =>
        \A t \in DOMAIN _dependecies :
            \A d \in DOMAIN _dependecies[t].val :
                ~Widget(_dependecies[t].val[d].key).disabled
                    <=> Widget(_dependecies[t].key).value = _dependecies[t].val[d].val

\* The feature controls whose value the step changes.
Changed ==
    {k \in DOMAIN _interact_camera_widgets :
        _interact_camera_widgets'[k].val.value # _interact_camera_widgets[k].val.value}

EnabledAfter ==
    {j \in DOMAIN _interact_camera_widgets' : ~_interact_camera_widgets'[j].val.disabled}

\* C15: the value of a disabled control is never written to the device.  A
\* call of _update_values_from_widgets (on display and on every change of a
\* value by the user) leaves the node of every control that is disabled
\* after the step as it was and, unless updates are suppressed, sets the node
\* of every control that is enabled after the step, with one setattr each:
\* the enabled states it uses are those the dependency handler has just set.
\* While the refresh runs no node is written.
C15_DisabledNeverWritten ==
    [][ /\ (pc = "idle" /\ Changed # {}) \/ (pc = "configured" /\ pc' = "idle") =>
              /\ \A j \in DOMAIN _interact_camera_widgets' :
                     LET n == _interact_camera_widgets'[j].key
                     IN  IF j \in EnabledAfter /\ ~_disable_updates
                             THEN _camera'[n].value = _interact_camera_widgets'[j].val.value
                             ELSE _camera'[n] = _camera[n]
              /\ writes' = IF _disable_updates THEN 0 ELSE Cardinality(EnabledAfter)
        /\ pc = "refresh" => _camera' = _camera ]_vars

\* The user has changed a value on the shown panel; the enabled controls
\* were written and GainRaw, disabled, keeps a value the device does not have.
C15_Witness ==
    /\ pc = "idle"
    /\ panel
    /\ ret.op = "change"
    /\ writes > 0
    /\ "GainRaw" \in Keys(_interact_camera_widgets)
    /\ Widget("GainRaw").disabled
    /\ Widget("GainRaw").value # _camera.GainRaw.value

\* C16: _disable_updates is true only while the refresh from the device is
\* executing: whenever _update_values_from_camera is not running, also after
\* a refresh that was left by an exception, the flag is false.
C16_FlagOnlyDuringRefresh ==
    pc # "refresh" => ~_disable_updates

\* Some descriptor's dependency names a trigger that is no descriptor's name.
UnknownTrigger ==
    \E k \in DOMAIN Features :
        \E j \in DOMAIN GetOr(Features[k], "dependency", <<>>) :
            Features[k].dependency[j].key \notin {Features[i].name : i \in DOMAIN Features}

\* C10: set_configuration raises ValueError exactly when a dependency names a
\* trigger that is not a control of the built set, wherever that control is
\* declared; after a successful call every key and nested key of the
\* dependency table is a control.
C10_DependencyTableWellFormed ==
    /\ pc # "init" /\ UnknownTrigger =>
           pc = "failed" /\ ret = [op |-> "set_configuration", raised |-> "ValueError"]
    /\ pc # "init" /\ ~UnknownTrigger => pc # "failed"
    /\ Configured =>
           \A t \in DOMAIN _dependecies :
               /\ _dependecies[t].key \in Keys(_interact_camera_widgets)
               /\ Keys(_dependecies[t].val) \subseteq Keys(_interact_camera_widgets)

\* The call failed on a trigger that names no control although an earlier
\* trigger of the table was registered.
C10_Witness ==
    /\ pc = "failed"
    /\ UnknownTrigger
    /\ ret.raised = "ValueError"
    /\ observed # {}

(***************************************************************************)
(* Claims about the capture modes.                                         *)
(***************************************************************************)
CaptureDone == pc = "idle" /\ ret.op \in {"continuous", "single"}

\* C7: when either capture mode returns or raises, the camera is not
\* grabbing and the grab result the capture retrieved has been released.
C7_ResourcesReleased ==
    CaptureDone => ~grabbing /\ grab_result # "held"

\* C8 as claimed: in either mode a retrieve that gets no frame is reported
\* through StatusLabel and not raised to the caller.
C8_TimeoutReportedNotRaised ==
    CaptureDone /\ frame.grab \in {"timeout", "failed"} =>
        /\ ret.raised = "none"
        /\ StatusLabel = "The single shot action has failed."

\* C8 as amended: in single-shot mode a grab result without success is
\* reported through StatusLabel and not raised; in continuous-shot mode a
\* retrieve that times out leaves the loop at once with the timeout exception
\* raised to the caller, the camera no longer grabbing and StatusLabel as it was.
C8_SingleReportsContinuousRaises ==
    [][ /\ pc = "idle" /\ pc' = "idle" /\ ret'.op = "single" /\ frame'.grab = "failed"
            => StatusLabel' = "The single shot action has failed." /\ ret'.raised = "none"
        /\ pc = "continuous" /\ frame'.grab = "timeout"
            => /\ pc' = "idle"
               /\ ret' = [op |-> "continuous", raised |-> "TimeoutException"]
               /\ ~grabbing'
               /\ StatusLabel' = StatusLabel ]_vars

C8_Witness ==
    /\ CaptureDone
    /\ ret = [op |-> "continuous", raised |-> "TimeoutException"]
    /\ frame.grab = "timeout"

\* C13: the keyboard is polled on every iteration of the continuous-shot
\* loop: an iteration during which the quit key is down, whether or not its
\* grab succeeded, ends the loop with the camera no longer grabbing.
C13_QuitPolledEveryIteration ==
    [][ pc = "continuous" /\ frame'.key = "q" => pc' = "idle" /\ ~grabbing' ]_vars

\* Every enabled feature control has the value its node has on the device.
Synced ==
    \A j \in DOMAIN _interact_camera_widgets :
        ~_interact_camera_widgets[j].val.disabled =>
            _interact_camera_widgets[j].val.value
                = _camera[_interact_camera_widgets[j].key].value

\* C14: when a single shot or a continuous shot begins, and so while it runs
\* and when it ends, the device value of every enabled feature control is
\* that control's current value.
C14_ChangesAppliedBeforeCapture ==
    pc \in {"continuous", "single"} \/ CaptureDone => Synced

\* C9: with a callback and the driver's own window, a callback result that
\* is not an array ends the capture at once with ValueError, the frame not
\* shown and the camera not grabbing; with own_window the driver opens no
\* window and never raises over the callback's result.
C9_InvalidCallbackResult ==
    /\ ~_impro_own_window /\ frame.callback = "not an array" =>
           /\ CaptureDone
           /\ ret.raised = "ValueError"
           /\ ~frame.shown
           /\ ~grabbing
    /\ _impro_own_window /\ (CaptureDone \/ pc \in {"continuous", "single"}) =>
           /\ ~frame.opened
           /\ ~frame.shown
           /\ CaptureDone => ret.raised # "ValueError"

C9_Witness ==
    /\ CaptureDone
    /\ ret = [op |-> "continuous", raised |-> "ValueError"]
    /\ ~_impro_own_window
    /\ _impro_function = "function"
    /\ frame.callback = "not an array"
====
